---- MODULE Spec2Model ----
(***************************************************************************)
(* A model of scraper.py: the date/time helpers (split_date_time,          *)
(* parse_event_date), the per-page extractor and filter (scrape_tapology)  *)
(* and the source/pagination loop of main.                                 *)
(*                                                                         *)
(* Text is modelled at character level: a Python str is a sequence of      *)
(* one-character strings, so that strip(), substring tests, the regular    *)
(* expressions and strptime/strftime are computed, not assumed.            *)
(***************************************************************************)
EXTENDS Integers, Sequences, FiniteSets, TLC

VARIABLES
    pc,              \* position of the operation being modelled
    today,           \* datetime.now() at midnight: [y, m, d]
    dt_str,          \* split_date_time: the argument
    split1,          \* split_date_time(dt_str)
    split2,          \* split_date_time(split1[1])
    date_str,        \* parse_event_date: the argument
    parse1,          \* parse_event_date(date_str)
    parse2,          \* parse_event_date(parse1.text)
    promotion_name,  \* scrape_tapology: the promotion label
    doc,             \* scrape_tapology: what client.get(url) produced
    result,          \* scrape_tapology: the returned (events, len(rows))
    src,             \* main: index into urls
    page,            \* main: page counter of the pagination loop
    all_events,      \* main: the aggregate
    returned,        \* history: what every scrape_tapology call returned
    written          \* upcoming_events.json, once written

vars == <<pc, today, dt_str, split1, split2, date_str, parse1, parse2,
          promotion_name, doc, result, src, page, all_events, returned, written>>
splitVars == <<dt_str, split1, split2>>
dateVars == <<date_str, parse1, parse2>>
scrapeVars == <<promotion_name, doc, result>>
mainVars == <<src, page, all_events, returned, written>>

None == <<"<none>">>

-----------------------------------------------------------------------------
(* Characters and the str methods the code uses.                           *)

Whitespace == {" ", "\t", "\n"}
Digits == {"0", "1", "2", "3", "4", "5", "6", "7", "8", "9"}
Lowercase == {"a", "b", "c", "d", "e", "f", "g", "h", "i", "j", "k", "l", "m",
              "n", "o", "p", "q", "r", "s", "t", "u", "v", "w", "x", "y", "z"}
Uppercase == {"A", "B", "C", "D", "E", "F", "G", "H", "I", "J", "K", "L", "M",
              "N", "O", "P", "Q", "R", "S", "T", "U", "V", "W", "X", "Y", "Z"}
\* \w of the re module
WordChars == Lowercase \cup Uppercase \cup Digits \cup {"_"}

RECURSIVE lstrip(_, _)
lstrip(s, chars) ==
    IF s # <<>> /\ Head(s) \in chars THEN lstrip(Tail(s), chars) ELSE s

RECURSIVE rstrip(_, _)
rstrip(s, chars) ==
    IF s # <<>> /\ s[Len(s)] \in chars
    THEN rstrip(SubSeq(s, 1, Len(s) - 1), chars) ELSE s

\* str.strip(chars)
strip_chars(s, chars) == rstrip(lstrip(s, chars), chars)

\* str.strip()
strip(s) == strip_chars(s, Whitespace)

\* s[i:i+len(p)] == p, 1-based
StartsWithAt(s, i, p) ==
    /\ i >= 1
    /\ i + Len(p) - 1 <= Len(s)
    /\ SubSeq(s, i, i + Len(p) - 1) = p

\* p in s
Contains(s, p) == \E i \in 1..(Len(s) - Len(p) + 1) : StartsWithAt(s, i, p)

\* s.find(p) + 1: the first position of p in s, 0 when absent
Find(s, p) ==
    IF Contains(s, p)
    THEN CHOOSE i \in 1..Len(s) :
            /\ StartsWithAt(s, i, p)
            /\ \A j \in 1..(i - 1) : ~StartsWithAt(s, j, p)
    ELSE 0

\* the end of the run of characters of `chars` that starts at i (i - 1 if none)
RECURSIVE RunEnd(_, _, _)
RunEnd(s, i, chars) ==
    IF i <= Len(s) /\ s[i] \in chars THEN RunEnd(s, i + 1, chars) ELSE i - 1

IsDigitAt(s, i) == i >= 1 /\ i <= Len(s) /\ s[i] \in Digits

-----------------------------------------------------------------------------
(* split_date_time                                                         *)

NA == <<"N", "/", "A">>
AtSep == <<" ", "a", "t", " ">>
AM == <<"A", "M">>
PM == <<"P", "M">>

\* re: \d{1,2}:\d{2}\s*(?:AM|PM)(?:\s+\w+)?  matched at position i.
\* The last position of the match, 0 when there is none at i.
TimeMatchEnd(s, i) ==
    LET nd == IF IsDigitAt(s, i) /\ IsDigitAt(s, i + 1) THEN 2 ELSE 1
        colon == i + nd
        clock == /\ IsDigitAt(s, i)
                 /\ colon <= Len(s) /\ s[colon] = ":"
                 /\ IsDigitAt(s, colon + 1) /\ IsDigitAt(s, colon + 2)
        mer == RunEnd(s, colon + 3, Whitespace) + 1
        hasMer == StartsWithAt(s, mer, AM) \/ StartsWithAt(s, mer, PM)
        e == mer + 1
        gap == RunEnd(s, e + 1, Whitespace)
        zone == RunEnd(s, gap + 1, WordChars)
    IN  IF ~(clock /\ hasMer) THEN 0
        ELSE IF gap > e /\ zone > gap THEN zone
        ELSE e

\* re.search: the leftmost position with a match, 0 when there is none
TimeSearch(s) ==
    IF \E i \in 1..Len(s) : TimeMatchEnd(s, i) > 0
    THEN CHOOSE i \in 1..Len(s) :
            /\ TimeMatchEnd(s, i) > 0
            /\ \A j \in 1..(i - 1) : TimeMatchEnd(s, j) = 0
    ELSE 0

\* A mutant: the parts around " at " are returned unstripped.
split_date_time_nostrip(s) ==
    LET at == Find(s, AtSep)
        tm == TimeSearch(s)
    IN
    IF s = <<>> \/ s = NA THEN <<NA, NA>>
    ELSE IF at > 0
         THEN <<SubSeq(s, 1, at - 1), SubSeq(s, at + Len(AtSep), Len(s))>>
    ELSE IF tm > 0
         THEN <<strip_chars(SubSeq(s, 1, tm - 1), {",", " "}),
                strip(SubSeq(s, tm, TimeMatchEnd(s, tm)))>>
    ELSE <<strip(s), NA>>

\* A mutant: an empty date part before " at " is replaced by the marker.
split_date_time_marker(s) ==
    LET at == Find(s, AtSep)
        tm == TimeSearch(s)
        d == strip(SubSeq(s, 1, at - 1))
    IN
    IF s = <<>> \/ s = NA THEN <<NA, NA>>
    ELSE IF at > 0
         THEN <<IF d = <<>> THEN NA ELSE d,
                strip(SubSeq(s, at + Len(AtSep), Len(s)))>>
    ELSE IF tm > 0
         THEN <<strip_chars(SubSeq(s, 1, tm - 1), {",", " "}),
                strip(SubSeq(s, tm, TimeMatchEnd(s, tm)))>>
    ELSE <<strip(s), NA>>

\* split_date_time(dt_str) = <<date_part, time_part>>
split_date_time(s) ==
    LET at == Find(s, AtSep)
        tm == TimeSearch(s)
    IN
    IF s = <<>> \/ s = NA THEN <<NA, NA>>
    ELSE IF at > 0
         THEN <<strip(SubSeq(s, 1, at - 1)),
                strip(SubSeq(s, at + Len(AtSep), Len(s)))>>
    ELSE IF tm > 0
         THEN <<strip_chars(SubSeq(s, 1, tm - 1), {",", " "}),
                strip(SubSeq(s, tm, TimeMatchEnd(s, tm)))>>
    ELSE <<strip(s), NA>>

-----------------------------------------------------------------------------
(* parse_event_date: the clean-up regular expressions, datetime.strptime   *)
(* for the six formats the code tries, and strftime("%A, %B %d").          *)

\* dt = None
NoDate == [y |-> 0, m |-> 0, d |-> 0]

\* calendar.day_name, Monday first as datetime.weekday() counts
DayNames == <<
    <<"M", "o", "n", "d", "a", "y">>,
    <<"T", "u", "e", "s", "d", "a", "y">>,
    <<"W", "e", "d", "n", "e", "s", "d", "a", "y">>,
    <<"T", "h", "u", "r", "s", "d", "a", "y">>,
    <<"F", "r", "i", "d", "a", "y">>,
    <<"S", "a", "t", "u", "r", "d", "a", "y">>,
    <<"S", "u", "n", "d", "a", "y">> >>

\* %B
MonthNames == <<
    <<"J", "a", "n", "u", "a", "r", "y">>,
    <<"F", "e", "b", "r", "u", "a", "r", "y">>,
    <<"M", "a", "r", "c", "h">>,
    <<"A", "p", "r", "i", "l">>,
    <<"M", "a", "y">>,
    <<"J", "u", "n", "e">>,
    <<"J", "u", "l", "y">>,
    <<"A", "u", "g", "u", "s", "t">>,
    <<"S", "e", "p", "t", "e", "m", "b", "e", "r">>,
    <<"O", "c", "t", "o", "b", "e", "r">>,
    <<"N", "o", "v", "e", "m", "b", "e", "r">>,
    <<"D", "e", "c", "e", "m", "b", "e", "r">> >>

\* %b
MonthAbbrs == <<
    <<"J", "a", "n">>, <<"F", "e", "b">>, <<"M", "a", "r">>, <<"A", "p", "r">>,
    <<"M", "a", "y">>, <<"J", "u", "n">>, <<"J", "u", "l">>, <<"A", "u", "g">>,
    <<"S", "e", "p">>, <<"O", "c", "t">>, <<"N", "o", "v">>, <<"D", "e", "c">> >>

UpperSeq == <<"A", "B", "C", "D", "E", "F", "G", "H", "I", "J", "K", "L", "M",
              "N", "O", "P", "Q", "R", "S", "T", "U", "V", "W", "X", "Y", "Z">>
LowerSeq == <<"a", "b", "c", "d", "e", "f", "g", "h", "i", "j", "k", "l", "m",
              "n", "o", "p", "q", "r", "s", "t", "u", "v", "w", "x", "y", "z">>
DigitSeq == <<"0", "1", "2", "3", "4", "5", "6", "7", "8", "9">>

\* str.lower()
lower(s) ==
    [i \in 1..Len(s) |->
        IF s[i] \in Uppercase
        THEN LowerSeq[CHOOSE k \in 1..Len(UpperSeq) : UpperSeq[k] = s[i]]
        ELSE s[i]]

DigitVal(c) == (CHOOSE k \in 1..Len(DigitSeq) : DigitSeq[k] = c) - 1

\* re.sub(r'(Monday|...|Sunday),?\s*', '', s)
RECURSIVE RemoveDayNames(_)
RemoveDayNames(s) ==
    IF s = <<>> THEN <<>>
    ELSE IF \E k \in 1..Len(DayNames) : StartsWithAt(s, 1, DayNames[k])
    THEN LET k == CHOOSE n \in 1..Len(DayNames) : StartsWithAt(s, 1, DayNames[n])
             e == Len(DayNames[k])
             c == IF e + 1 <= Len(s) /\ s[e + 1] = "," THEN e + 1 ELSE e
             w == RunEnd(s, c + 1, Whitespace)
         IN  RemoveDayNames(SubSeq(s, w + 1, Len(s)))
    ELSE <<Head(s)>> \o RemoveDayNames(Tail(s))

OrdinalSuffixes == {<<"s", "t">>, <<"n", "d">>, <<"r", "d">>, <<"t", "h">>}

\* re.sub(r'(\d+)(st|nd|rd|th)', r'\1', s)
RECURSIVE RemoveOrdinals(_)
RemoveOrdinals(s) ==
    IF s = <<>> THEN <<>>
    ELSE LET e == RunEnd(s, 1, Digits) IN
         IF e >= 1 /\ \E x \in OrdinalSuffixes : StartsWithAt(s, e + 1, x)
         THEN SubSeq(s, 1, e) \o RemoveOrdinals(SubSeq(s, e + 3, Len(s)))
         ELSE <<Head(s)>> \o RemoveOrdinals(Tail(s))

\* str.replace('.', '')
RECURSIVE RemoveDots(_)
RemoveDots(s) ==
    IF s = <<>> THEN <<>>
    ELSE IF Head(s) = "." THEN RemoveDots(Tail(s))
    ELSE <<Head(s)>> \o RemoveDots(Tail(s))

\* re.sub(r'\s+', ' ', s)
RECURSIVE CollapseSpaces(_)
CollapseSpaces(s) ==
    IF s = <<>> THEN <<>>
    ELSE IF Head(s) \in Whitespace
    THEN <<" ">> \o CollapseSpaces(SubSeq(s, RunEnd(s, 1, Whitespace) + 1, Len(s)))
    ELSE <<Head(s)>> \o CollapseSpaces(Tail(s))

\* lines 30-33: the cleaned string handed to strptime
Clean(date_s) ==
    CollapseSpaces(strip(RemoveDots(RemoveOrdinals(strip(RemoveDayNames(date_s))))))

\* re.search(r'\b\d{4}\b', s)
HasFourDigits(s) ==
    \E i \in 1..(Len(s) - 3) :
        /\ \A k \in i..(i + 3) : s[k] \in Digits
        /\ (i = 1 \/ s[i - 1] \notin WordChars)
        /\ (i + 4 > Len(s) \/ s[i + 4] \notin WordChars)

LeapYear(y) == (y % 4 = 0 /\ y % 100 # 0) \/ y % 400 = 0

DaysInMonth(y, m) ==
    IF m = 2 THEN (IF LeapYear(y) THEN 29 ELSE 28)
    ELSE IF m \in {4, 6, 9, 11} THEN 30 ELSE 31

\* datetime.weekday(): Monday is 0
Weekday(y, m, d) ==
    LET t == <<0, 3, 2, 5, 0, 3, 5, 1, 4, 6, 2, 4>>
        yy == IF m < 3 THEN y - 1 ELSE y
        sunday0 == (yy + (yy \div 4) - (yy \div 100) + (yy \div 400) + t[m] + d) % 7
    IN  (sunday0 + 6) % 7

\* The alternatives of strptime's %d, in the order the regular expression
\* tries them: 3[0-1] | [1-2]\d | 0[1-9] | [1-9] | " "[1-9].
\* <<last position, value>> of alternative k at position p, <<0, 0>> if none.
DayAlt(s, p, k) ==
    LET two == p + 1 <= Len(s)
        one == p <= Len(s)
    IN
    IF k = 1 /\ two /\ s[p] = "3" /\ s[p + 1] \in {"0", "1"}
        THEN <<p + 1, 30 + DigitVal(s[p + 1])>>
    ELSE IF k = 2 /\ two /\ s[p] \in {"1", "2"} /\ s[p + 1] \in Digits
        THEN <<p + 1, 10 * DigitVal(s[p]) + DigitVal(s[p + 1])>>
    ELSE IF k = 3 /\ two /\ s[p] = "0" /\ s[p + 1] \in Digits \ {"0"}
        THEN <<p + 1, DigitVal(s[p + 1])>>
    ELSE IF k = 4 /\ one /\ s[p] \in Digits \ {"0"}
        THEN <<p, DigitVal(s[p])>>
    ELSE IF k = 5 /\ two /\ s[p] = " " /\ s[p + 1] \in Digits \ {"0"}
        THEN <<p + 1, DigitVal(s[p + 1])>>
    ELSE <<0, 0>>

\* What follows %d in the format, matched from position q: "", ", %Y" or
\* " %Y". <<last position, year>>, <<-1, 0>> when it does not match.
RestOfFormat(s, q, fmt) ==
    IF ~fmt.year THEN <<q - 1, 1900>>
    ELSE LET c == IF fmt.comma THEN q + 1 ELSE q
             w == RunEnd(s, c, Whitespace)
             commaOk == ~fmt.comma \/ (q <= Len(s) /\ s[q] = ",")
             yearOk == w >= c /\ \A k \in (w + 1)..(w + 4) : IsDigitAt(s, k)
         IN  IF commaOk /\ yearOk
             THEN <<w + 4, 1000 * DigitVal(s[w + 1]) + 100 * DigitVal(s[w + 2])
                            + 10 * DigitVal(s[w + 3]) + DigitVal(s[w + 4])>>
             ELSE <<-1, 0>>

\* the month names a format matches: %b or %B
FormatNames(fmt) == IF fmt.abbr THEN MonthAbbrs ELSE MonthNames

\* the month whose name starts the lower-cased string ls, 0 when none does
MonthAt(ls, names) ==
    LET ms == {m \in 1..12 : StartsWithAt(ls, 1, lower(names[m]))}
    IN  IF ms = {} THEN 0 ELSE CHOOSE x \in ms : TRUE

\* The alternatives of %d that match at p and after which the rest of the
\* format matches: <<k, day, <<last position, year>>>>.
DayMatches(s, p, fmt) ==
    {x \in {<<a[1], a[2][2], RestOfFormat(s, a[2][1] + 1, fmt)>> :
                a \in {b \in {<<k, DayAlt(s, p, k)>> : k \in 1..5} : b[2][1] > 0}} :
        x[3][1] >= 0}

\* the date of the match x in month m: "unconverted data remains" and a day
\* the month does not have are ValueError
MatchedDate(s, m, x) ==
    IF x[3][1] # Len(s) THEN NoDate
    ELSE IF x[3][2] < 1 \/ x[2] > DaysInMonth(x[3][2], m) THEN NoDate
    ELSE [y |-> x[3][2], m |-> m, d |-> x[2]]

\* the regular expression takes the first alternative that matches
FirstMatch(s, m, good) ==
    IF good = {} THEN NoDate
    ELSE MatchedDate(s, m, CHOOSE x \in good : \A z \in good : x[1] <= z[1])

\* after the month name, which ends before p: \s+ up to w, then %d
AfterSpace(s, fmt, m, p, w) ==
    IF w < p THEN NoDate ELSE FirstMatch(s, m, DayMatches(s, w + 1, fmt))

AfterMonth(s, fmt, names, m) ==
    IF m = 0 THEN NoDate
    ELSE AfterSpace(s, fmt, m, Len(names[m]) + 1,
                    RunEnd(s, Len(names[m]) + 1, Whitespace))

\* datetime.strptime(s, fmt) for fmt = [abbr, comma, year]: the date
\* [y, m, d], or NoDate for ValueError. Month names match in any case; a
\* format without %Y gives the year 1900, in which February 29 is no date.
strptime(s, fmt) ==
    AfterMonth(s, fmt, FormatNames(fmt), MonthAt(lower(s), FormatNames(fmt)))

\* the formats of line 39 and of line 48, in the order tried
YearFormats == <<[abbr |-> FALSE, comma |-> TRUE, year |-> TRUE],
                 [abbr |-> TRUE, comma |-> TRUE, year |-> TRUE],
                 [abbr |-> FALSE, comma |-> FALSE, year |-> TRUE],
                 [abbr |-> TRUE, comma |-> FALSE, year |-> TRUE]>>
NoYearFormats == <<[abbr |-> FALSE, comma |-> FALSE, year |-> FALSE],
                   [abbr |-> TRUE, comma |-> FALSE, year |-> FALSE]>>

\* the first date of a sequence of parse results, NoDate when there is none
FirstDate(dates) ==
    IF \A k \in DOMAIN dates : dates[k] = NoDate THEN NoDate
    ELSE dates[CHOOSE k \in DOMAIN dates :
                  /\ dates[k] # NoDate
                  /\ \A z \in DOMAIN dates : dates[z] # NoDate => k <= z]

\* the first format of fmts that parses s, NoDate when none does
FirstParse(s, fmts) ==
    FirstDate([k \in 1..Len(fmts) |-> strptime(s, fmts[k])])

TwoDigits(n) == <<DigitSeq[(n \div 10) + 1], DigitSeq[(n % 10) + 1]>>

\* dt.strftime("%A, %B %d")
strftime(dt) ==
    DayNames[Weekday(dt.y, dt.m, dt.d) + 1] \o <<",", " ">>
        \o MonthNames[dt.m] \o <<" ">> \o TwoDigits(dt.d)

\* A mutant: a date without a year that lies before today is taken to be
\* next year's (the inference the comment of lines 52-54 decides against).
InCurrentYear_nextyear(noYear, now) ==
    IF noYear = NoDate THEN NoDate
    ELSE [noYear EXCEPT !.y =
            IF noYear.m < now.m \/ (noYear.m = now.m /\ noYear.d < now.d)
            THEN now.y + 1 ELSE now.y]

\* line 51: dt.replace(year=current_year)
InCurrentYear(noYear, now) ==
    IF noYear = NoDate THEN NoDate ELSE [noYear EXCEPT !.y = now.y]

\* line 47: if not dt
OrElse(withYear, noYear) == IF withYear # NoDate THEN withYear ELSE noYear

\* lines 38-57 on the cleaned string
ParseClean(clean, now) ==
    OrElse(IF HasFourDigits(clean) THEN FirstParse(clean, YearFormats)
           ELSE NoDate,
           InCurrentYear(FirstParse(clean, NoYearFormats), now))

\* lines 59-63
Formatted(date_s, dt) ==
    IF dt = NoDate THEN <<NoDate, date_s>> ELSE <<dt, strftime(dt)>>

\* parse_event_date(date_str) = <<dt, formatted>>, with now = datetime.now()
parse_event_date(date_s, now) ==
    Formatted(date_s, ParseClean(Clean(date_s), now))

-----------------------------------------------------------------------------
(* scrape_tapology. A document is what client.get and the row selector    *)
(* produced: ok = FALSE when the get, raise_for_status or the parse raised,*)
(* else the rows selected. A row holds what the selectors of the loop body *)
(* find in it:                                                             *)
(*   name_elem   <<>> or <<[text, href]>>   the '.promotion a' element     *)
(*   promo_link  <<>> or <<[text, img, href]>>, img = <<>> or <<alt>>      *)
(*   spans       the texts of '.promotion span', in document order         *)
(*   extra       the remaining text of the row (badges, broadcast)         *)
(*   location    what the geography scan of lines 182-212 arrives at       *)
(*   raises      "none", or the step of the body that raises: "select"     *)
(*               (lines 115-126) or "locate" (lines 183-212)               *)

Zuffa == <<"z", "u", "f", "f", "a">>
BoxingWord == <<"b", "o", "x", "i", "n", "g">>
TitleFight == <<"T", "i", "t", "l", "e", " ", "F", "i", "g", "h", "t">>
Netflix == <<"N", "e", "t", "f", "l", "i", "x">>
SiteRoot == <<"h", "t", "t", "p", "s", ":", "/", "/", "w", "w", "w", ".",
              "t", "a", "p", "o", "l", "o", "g", "y", ".", "c", "o", "m">>

\* if event_url and event_url.startswith('/'): prefix the site
EventUrl(href) ==
    IF href # <<>> /\ Head(href) = "/" THEN SiteRoot \o href ELSE href

\* A mutant: the marker is looked for without lower-casing the texts.
ZuffaExcluded_casesensitive(row, name) ==
    \/ Contains(name, Zuffa)
    \/ /\ row.promo_link # <<>>
       /\ LET link == row.promo_link[1]
              promo_text == strip(link.text)
              promo_alt == IF link.img # <<>> THEN link.img[1] ELSE <<>>
          IN  \/ Contains(promo_text, Zuffa)
              \/ Contains(promo_alt, Zuffa)
              \/ Contains(link.href, Zuffa)

\* lines 130-142: the Zuffa exclusion of the "Boxing" list
ZuffaExcluded(row, name) ==
    \/ Contains(lower(name), Zuffa)
    \/ /\ row.promo_link # <<>>
       /\ LET link == row.promo_link[1]
              promo_text == lower(strip(link.text))
              promo_alt == IF link.img # <<>> THEN lower(link.img[1]) ELSE <<>>
          IN  \/ Contains(promo_text, Zuffa)
              \/ Contains(promo_alt, Zuffa)
              \/ Contains(lower(link.href), Zuffa)

HasDayName(text) == \E k \in 1..Len(DayNames) : Contains(text, DayNames[k])

\* lines 145-151: the first span whose text holds a weekday name
RECURSIVE DateTimeRaw(_)
DateTimeRaw(spans) ==
    IF spans = <<>> THEN NA
    ELSE IF HasDayName(strip(Head(spans))) THEN strip(Head(spans))
    ELSE DateTimeRaw(Tail(spans))

DateBefore(a, b) ==
    \/ a.y < b.y
    \/ a.y = b.y /\ a.m < b.m
    \/ a.y = b.y /\ a.m = b.m /\ a.d < b.d

\* A mutant: "this month" compares the month alone, not the year.
WindowDrops_monthonly(dt, now) ==
    /\ dt # NoDate
    /\ ~(dt.m = now.m \/ ~DateBefore(dt, now))

\* lines 158-163: whether the temporal window drops the candidate
WindowDrops(dt, now) ==
    /\ dt # NoDate
    /\ LET is_this_month == dt.m = now.m /\ dt.y = now.y
           is_future == ~DateBefore(dt, now)
       IN  ~(is_this_month \/ is_future)

\* the non-empty texts joined by one space, as get_text(" ", strip=True)
RECURSIVE JoinTexts(_)
JoinTexts(texts) ==
    IF texts = <<>> THEN <<>>
    ELSE LET h == strip(Head(texts))
             t == JoinTexts(Tail(texts))
         IN  IF h = <<>> THEN t
             ELSE IF t = <<>> THEN h
             ELSE h \o <<" ">> \o t

\* row.get_text(" ", strip=True)
RowText(row) ==
    JoinTexts((IF row.promo_link # <<>> THEN <<row.promo_link[1].text>> ELSE <<>>)
              \o <<row.name_elem[1].text>> \o row.spans \o <<row.extra>>)

\* A mutant: only a title fight qualifies a generic boxing event.
TopicalDrops_titleonly(label, name, row_text) ==
    LET is_title_fight == Contains(row_text, TitleFight)
        is_netflix == Contains(row_text, Netflix)
        is_generic_boxing ==
            \/ label = "Boxing"
            \/ Contains(lower(name), BoxingWord) /\ ~Contains(lower(name), Zuffa)
    IN  \/ is_generic_boxing /\ ~is_title_fight
        \/ label = "Other" /\ ~is_netflix

\* lines 166-180: whether the title-fight / Netflix rules drop the candidate
TopicalDrops(label, name, row_text) ==
    LET is_title_fight == Contains(row_text, TitleFight)
        is_netflix == Contains(row_text, Netflix)
        is_generic_boxing ==
            \/ label = "Boxing"
            \/ Contains(lower(name), BoxingWord) /\ ~Contains(lower(name), Zuffa)
    IN  \/ is_generic_boxing /\ ~is_title_fight /\ ~is_netflix
        \/ label = "Other" /\ ~is_netflix

NoEvent == [event_name |-> <<>>, date |-> <<>>, time |-> <<>>,
            location |-> <<>>, promotion |-> "", url |-> <<>>]

\* the rule whose `continue` ends the iteration, "raised" when the except
\* clause of line 222 is taken, "kept" when the event is appended
RowOutcome(row, label, now, name, dt) ==
    IF label = "Boxing" /\ ZuffaExcluded(row, name) THEN "zuffa"
    ELSE IF WindowDrops(dt, now) THEN "old_date"
    ELSE IF TopicalDrops(label, name, RowText(row)) THEN "off_topic"
    ELSE IF row.raises = "locate" THEN "raised"
    ELSE "kept"

\* lines 214-221: the event appended by a row that is kept
RowResult(row, label, name, split, parsed, outcome) ==
    [outcome |-> outcome,
     dt |-> parsed[1],
     event |-> IF outcome # "kept" THEN NoEvent
               ELSE [event_name |-> name,
                     date |-> parsed[2],
                     time |-> split[2],
                     location |-> row.location,
                     promotion |-> label,
                     url |-> EventUrl(row.name_elem[1].href)]]

\* lines 155-221, with event_date_raw, event_time = split
ProcessSplit(row, label, now, name, split, parsed) ==
    RowResult(row, label, name, split, parsed,
              RowOutcome(row, label, now, name, parsed[1]))

\* lines 123-221, with name = name_elem.get_text(strip=True)
ProcessNamed(row, label, now, name, split) ==
    ProcessSplit(row, label, now, name, split, parse_event_date(split[1], now))

\* lines 113-223: the body of the row loop
ProcessRow(row, label, now) ==
    IF row.raises = "select"
    THEN [outcome |-> "raised", dt |-> NoDate, event |-> NoEvent]
    ELSE IF row.name_elem = <<>>
    THEN [outcome |-> "no_name", dt |-> NoDate, event |-> NoEvent]
    ELSE ProcessNamed(row, label, now, strip(row.name_elem[1].text),
                      split_date_time(DateTimeRaw(row.spans)))

\* line 214: events.append, for a row that reaches it
AppendKept(events, r) ==
    IF r.outcome = "kept" THEN Append(events, r.event) ELSE events

\* A mutant: the try/except encloses the loop, so a row that raises ends it.
RECURSIVE RowLoop_abort(_, _, _, _)
RowLoop_abort(rows, label, now, events) ==
    IF rows = <<>> THEN events
    ELSE LET r == ProcessRow(Head(rows), label, now) IN
         IF r.outcome = "raised" THEN events
         ELSE RowLoop_abort(Tail(rows), label, now, AppendKept(events, r))

\* lines 112-223: for row in rows, with the events appended so far
RECURSIVE RowLoop(_, _, _, _)
RowLoop(rows, label, now, events) ==
    IF rows = <<>> THEN events
    ELSE RowLoop(Tail(rows), label, now,
                 AppendKept(events, ProcessRow(Head(rows), label, now)))

\* scrape_tapology(client, url, promotion_name) = <<events, len(rows)>>
scrape_tapology(document, label, now) ==
    IF ~document.ok THEN <<<<>>, 0>>
    ELSE <<RowLoop(document.rows, label, now, <<>>), Len(document.rows)>>

-----------------------------------------------------------------------------
(* Inputs of split_date_time: every concatenation of at most MaxChunks     *)
(* fragments of date/time text.                                            *)

MaxChunks == 3

Chunks == {
    <<" ", "a", "t", " ">>,
    <<"7", ":", "3", "0", " ", "P", "M">>,
    <<"1", "0", ":", "0", "0", "A", "M">>,
    <<" ">>,
    <<"\t">>,
    <<",">>,
    <<"S", "a", "t">>,
    <<"E", "T">>,
    <<"N", "/", "A">> }

RECURSIVE Texts(_)
Texts(n) ==
    IF n = 0 THEN {<<>>}
    ELSE LET shorter == Texts(n - 1)
         IN  shorter \cup {t \o c : t \in shorter, c \in Chunks}

SplitInputs == Texts(MaxChunks)

IdleSplit == dt_str = None /\ split1 = None /\ split2 = None
IdleDate == date_str = None /\ parse1 = None /\ parse2 = None
IdleScrape == promotion_name = None /\ doc = None /\ result = None
IdleMain == src = 0 /\ page = 0 /\ all_events = <<>> /\ returned = <<>>
            /\ written = None

InitSplit ==
    /\ pc = "split"
    /\ today = None
    /\ dt_str \in SplitInputs
    /\ split1 = None /\ split2 = None
    /\ IdleDate /\ IdleScrape /\ IdleMain

\* event_date_raw, event_time = split_date_time(date_time_raw)
CallSplit ==
    /\ pc = "split"
    /\ split1' = split_date_time(dt_str)
    /\ pc' = "resplit"
    /\ UNCHANGED <<today, dt_str, split2, dateVars, scrapeVars, mainVars>>

\* split_date_time applied to its own date output
CallResplit ==
    /\ pc = "resplit"
    /\ split2' = split_date_time(split1[1])
    /\ pc' = "split_done"
    /\ UNCHANGED <<today, dt_str, split1, dateVars, scrapeVars, mainVars>>

NextSplit == CallSplit \/ CallResplit

SpecSplit == InitSplit /\ [][NextSplit]_vars

-----------------------------------------------------------------------------
(* Inputs of parse_event_date: an optional weekday, a month name (full,    *)
(* abbreviated, abbreviated with a dot), a day (plain, zero-padded or      *)
(* ordinal) and an optional year, with or without a comma; and text that   *)
(* is no date. The reference dates are the days the scraper may run on.    *)

FirstYear == 2024
YearSpan == 3

FourDigits(n) ==
    <<DigitSeq[(n \div 1000) + 1], DigitSeq[((n \div 100) % 10) + 1]>>
        \o TwoDigits(n % 100)

DatePrefixes == {<<>>, <<"S", "a", "t", "u", "r", "d", "a", "y", ",", " ">>,
                 <<"F", "r", "i", "d", "a", "y", " ">>}

MonthTexts ==
    {MonthNames[m] : m \in 1..12} \cup {MonthAbbrs[m] : m \in 1..12}
        \cup {MonthAbbrs[m] \o <<".">> : m \in {2, 12}}

DayTexts == {<<"1", "s", "t">>, <<"2", "2", "n", "d">>, <<"8", "t", "h">>,
             <<"0", "8">>, <<"2", "9">>, <<"3", "1">>}

YearTexts ==
    {<<>>} \cup {<<",", " ">> \o FourDigits(y) : y \in FirstYear..(FirstYear + YearSpan)}
           \cup {<<" ">> \o FourDigits(y) : y \in FirstYear..(FirstYear + YearSpan)}

NotDates == {<<>>, NA, <<"T", "B", "D">>, <<"M", "a", "r", "c", "h">>,
             <<"8", " ", "M", "a", "r", "c", "h">>,
             <<"m", "a", "r", "c", "h", " ", "8">>,
             <<"M", "a", "r", "c", "h", " ", "8", ",", " ", "0", "0", "0", "0">>,
             <<"M", "a", "r", "c", "h", " ", "8", " ", "2", "5">>}

DateInputs ==
    NotDates \cup
    {p \o m \o <<" ">> \o d \o y :
        p \in DatePrefixes, m \in MonthTexts, d \in DayTexts, y \in YearTexts}

ReferenceDates == {[y |-> 2026, m |-> 11, d |-> 6],
                   [y |-> 2025, m |-> 3, d |-> 8],
                   [y |-> 2028, m |-> 2, d |-> 29]}

InitDate ==
    /\ pc = "parse"
    /\ today \in ReferenceDates
    /\ date_str \in DateInputs
    /\ parse1 = None /\ parse2 = None
    /\ IdleSplit /\ IdleScrape /\ IdleMain

\* dt, event_date = parse_event_date(event_date_raw)
CallParse ==
    /\ pc = "parse"
    /\ parse1' = parse_event_date(date_str, today)
    /\ pc' = "reparse"
    /\ UNCHANGED <<today, date_str, parse2, splitVars, scrapeVars, mainVars>>

\* parse_event_date applied to the text it returned
CallReparse ==
    /\ pc = "reparse"
    /\ parse2' = parse_event_date(parse1[2], today)
    /\ pc' = "parse_done"
    /\ UNCHANGED <<today, date_str, parse1, splitVars, scrapeVars, mainVars>>

NextDate == CallParse \/ CallReparse

SpecDate == InitDate /\ [][NextDate]_vars

-----------------------------------------------------------------------------
(* Inputs of scrape_tapology: a failed fetch, every page of one row drawn  *)
(* from the product of the row features below, and every page of two to    *)
(* MaxRows rows of a short list.                                           *)

MaxRows == 3

NamePlain == <<"A", " ", "v", "s", " ", "B">>
NameZuffaBoxing == <<"Z", "u", "f", "f", "a", " ", "B", "o", "x", "i", "n", "g", " ", "1">>
NameZuffaUpper == <<"Z", "U", "F", "F", "A", " ", "2">>
NameBoxing == <<"B", "o", "x", "i", "n", "g", " ", "N", "i", "g", "h", "t">>
HrefEvent == <<"/", "f", "i", "g", "h", "t", "c", "e", "n", "t", "e", "r", "/",
               "e", "v", "e", "n", "t", "s", "/", "1">>
HrefPromoPlain == <<"/", "f", "i", "g", "h", "t", "c", "e", "n", "t", "e", "r", "/",
                    "p", "r", "o", "m", "o", "t", "i", "o", "n", "s", "/",
                    "1", "-", "p", "b", "c">>
HrefPromoZuffa == <<"/", "f", "i", "g", "h", "t", "c", "e", "n", "t", "e", "r", "/",
                    "p", "r", "o", "m", "o", "t", "i", "o", "n", "s", "/",
                    "6", "2", "9", "9", "-", "z", "u", "f", "f", "a", "-",
                    "b", "o", "x", "i", "n", "g", "-", "z", "b">>
TextPBC == <<"P", "B", "C">>
TextZuffa == <<"Z", "u", "f", "f", "a", " ", "B", "o", "x", "i", "n", "g">>
AltZuffa == <<"Z", "U", "F", "F", "A">>
SpanFuture == <<"S", "a", "t", "u", "r", "d", "a", "y", ",", " ", "N", "o", "v", "e", "m", "b", "e", "r", " ", "7", "t", "h", " ", "a", "t", " ", "1", "0", ":", "0", "0", " ", "P", "M", " ", "E", "T">>
SpanThisMonth == <<"S", "u", "n", "d", "a", "y", ",", " ", "N", "o", "v", "e", "m", "b", "e", "r", " ", "1", ",", " ", "7", ":", "3", "0", " ", "P", "M">>
SpanLastMonth == <<"S", "a", "t", "u", "r", "d", "a", "y", ",", " ", "O", "c", "t", "o", "b", "e", "r", " ", "3", " ", "a", "t", " ", "7", ":", "3", "0", " ", "P", "M">>
SpanLastYear == <<"F", "r", "i", "d", "a", "y", ",", " ", "N", "o", "v", "e", "m", "b", "e", "r", " ", "7", ",", " ", "2", "0", "2", "5">>
SpanNoDate == <<"S", "a", "t", "u", "r", "d", "a", "y", " ", "T", "B", "D">>
SpanToday == <<"F", "r", "i", "d", "a", "y", ",", " ", "N", "o", "v", "e", "m", "b", "e", "r", " ", "6">>
SpanCard == <<"M", "a", "i", "n", " ", "C", "a", "r", "d">>
SpanDecember == <<"S", "a", "t", "u", "r", "d", "a", "y", ",", " ", "D", "e", "c", "e", "m", "b", "e", "r", " ", "5", " ", "a", "t", " ", "8", ":", "0", "0", " ", "P", "M">>
SpanNextYear == <<"S", "a", "t", "u", "r", "d", "a", "y", ",", " ", "J", "a", "n", "u", "a", "r", "y", " ", "9", ",", " ", "2", "0", "2", "7">>
ExtraLower == <<"t", "i", "t", "l", "e", " ", "f", "i", "g", "h", "t", " ", "o", "n", " ", "n", "e", "t", "f", "l", "i", "x">>
LasVegas == <<"L", "a", "s", " ", "V", "e", "g", "a", "s">>

Labels == {"UFC", "Boxing", "Other"}

RowNames == {NamePlain, NameZuffaBoxing, NameZuffaUpper, NameBoxing}

PromoLinks == {<<>>,
               <<[text |-> TextPBC, img |-> <<>>, href |-> HrefPromoPlain]>>,
               <<[text |-> TextZuffa, img |-> <<>>, href |-> HrefPromoPlain]>>,
               <<[text |-> <<>>, img |-> <<AltZuffa>>, href |-> HrefPromoPlain]>>,
               <<[text |-> <<>>, img |-> <<TextPBC>>, href |-> HrefPromoZuffa]>>}

RowSpans == {<<>>, <<SpanFuture>>, <<SpanThisMonth>>, <<SpanLastMonth>>,
             <<SpanLastYear>>, <<SpanNoDate>>, <<SpanToday>>,
             <<SpanCard, SpanDecember>>, <<SpanNextYear>>}

RowExtras == {<<>>, TitleFight, Netflix, ExtraLower}

AnyRows ==
    {[name_elem |-> <<[text |-> n, href |-> HrefEvent]>>, promo_link |-> p,
      spans |-> s, extra |-> x, location |-> LasVegas, raises |-> "none"] :
        n \in RowNames, p \in PromoLinks, s \in RowSpans, x \in RowExtras}

PlainRow == [name_elem |-> <<[text |-> NamePlain, href |-> HrefEvent]>>,
             promo_link |-> <<>>, spans |-> <<SpanNextYear>>, extra |-> Netflix,
             location |-> LasVegas, raises |-> "none"]

ListedRows == {PlainRow,
               [PlainRow EXCEPT !.spans = <<SpanNoDate>>, !.location = NA],
               [PlainRow EXCEPT !.name_elem = <<>>, !.extra = <<>>],
               [PlainRow EXCEPT !.raises = "select"],
               [PlainRow EXCEPT !.raises = "locate"]}

RECURSIVE RowLists(_)
RowLists(n) ==
    IF n = 0 THEN {<<>>}
    ELSE LET shorter == RowLists(n - 1)
         IN  shorter \cup {Append(l, r) : l \in shorter, r \in ListedRows}

ScrapeDocs ==
    {[ok |-> FALSE, rows |-> <<>>]}
        \cup {[ok |-> TRUE, rows |-> <<r>>] : r \in AnyRows}
        \cup {[ok |-> TRUE, rows |-> l] : l \in RowLists(MaxRows)}

InitScrape ==
    /\ pc = "scrape"
    /\ today \in ReferenceDates
    /\ promotion_name \in Labels
    /\ doc \in ScrapeDocs
    /\ result = None
    /\ IdleSplit /\ IdleDate /\ IdleMain

\* events, row_count = await scrape_tapology(client, url, promo)
CallScrape ==
    /\ pc = "scrape"
    /\ result' = scrape_tapology(doc, promotion_name, today)
    /\ pc' = "scrape_done"
    /\ UNCHANGED <<today, promotion_name, doc, splitVars, dateVars, mainVars>>

NextScrape == CallScrape

SpecScrape == InitScrape /\ [][NextScrape]_vars

-----------------------------------------------------------------------------
(* main: the source list, the pagination loop and the aggregate.           *)

FightCenter == <<
    "h", "t", "t", "p", "s", ":", "/", "/", "w", "w", "w", ".", "t", "a",
    "p", "o", "l", "o", "g", "y", ".", "c", "o", "m", "/", "f", "i", "g",
    "h", "t", "c", "e", "n", "t", "e", "r">>
Path1 == <<
    "/", "p", "r", "o", "m", "o", "t", "i", "o", "n", "s", "/", "1", "-",
    "u", "l", "t", "i", "m", "a", "t", "e", "-", "f", "i", "g", "h", "t",
    "i", "n", "g", "-", "c", "h", "a", "m", "p", "i", "o", "n", "s", "h",
    "i", "p", "-", "u", "f", "c">>
Path2 == <<
    "/", "p", "r", "o", "m", "o", "t", "i", "o", "n", "s", "/", "6", "2",
    "9", "9", "-", "z", "u", "f", "f", "a", "-", "b", "o", "x", "i", "n",
    "g", "-", "z", "b">>
Path3 == <<
    "/", "p", "r", "o", "m", "o", "t", "i", "o", "n", "s", "/", "1", "9",
    "6", "9", "-", "p", "r", "o", "f", "e", "s", "s", "i", "o", "n", "a",
    "l", "-", "f", "i", "g", "h", "t", "e", "r", "s", "-", "l", "e", "a",
    "g", "u", "e", "-", "p", "f", "l">>
Path4 == <<
    "?", "s", "p", "o", "r", "t", "=", "b", "o", "x", "i", "n", "g", "&",
    "g", "r", "o", "u", "p", "=", "t", "v">>
Path5 == <<
    "?", "s", "p", "o", "r", "t", "=", "b", "o", "x", "i", "n", "g", "&",
    "g", "r", "o", "u", "p", "=", "t", "v", "&", "s", "c", "h", "e", "d",
    "u", "l", "e", "=", "r", "e", "s", "u", "l", "t", "s">>
Path6 == <<
    "?", "s", "p", "o", "r", "t", "=", "m", "m", "a", "&", "g", "r", "o",
    "u", "p", "=", "t", "v", "&", "s", "c", "h", "e", "d", "u", "l", "e",
    "=", "r", "e", "s", "u", "l", "t", "s">>
Path7 == <<
    "?", "s", "p", "o", "r", "t", "=", "m", "m", "a", "&", "g", "r", "o",
    "u", "p", "=", "t", "v">>

\* lines 231-239
urls == <<[url |-> FightCenter \o Path1, promo |-> "UFC"],
          [url |-> FightCenter \o Path2, promo |-> "Zuffa"],
          [url |-> FightCenter \o Path3, promo |-> "PFL"],
          [url |-> FightCenter \o Path4, promo |-> "Boxing"],
          [url |-> FightCenter \o Path5, promo |-> "Boxing"],
          [url |-> FightCenter \o Path6, promo |-> "Other"],
          [url |-> FightCenter \o Path7, promo |-> "Other"]>>

TapologyHost == <<"t", "a", "p", "o", "l", "o", "g", "y", ".", "c", "o", "m">>
GroupTv == <<"&", "g", "r", "o", "u", "p", "=", "t", "v">>

\* str.endswith
EndsWith(s, p) ==
    Len(s) >= Len(p) /\ SubSeq(s, Len(s) - Len(p) + 1, Len(s)) = p

\* the sources line 245 does not skip
Scraped_sources == {i \in 1..Len(urls) : Contains(urls[i].url, TapologyHost)}

\* the sources line 248 sends through the pagination loop
Paged == {i \in Scraped_sources : EndsWith(urls[i].url, GroupTv)}

\* A mutant: leaving the pagination loop leaves the source loop as well.
NextSource_return(i) ==
    IF i \in Paged \/ \A j \in Scraped_sources : j <= i THEN Len(urls) + 1
    ELSE CHOOSE j \in Scraped_sources :
            j > i /\ \A k \in Scraped_sources : k > i => j <= k

\* line 244-246: the source the for loop takes after source i,
\* Len(urls) + 1 when the list is exhausted
NextSource(i) ==
    IF \A j \in Scraped_sources : j <= i THEN Len(urls) + 1
    ELSE CHOOSE j \in Scraped_sources :
            j > i /\ \A k \in Scraped_sources : k > i => j <= k

\* A mutant: the loop ends on a page that yields no event.
LoopEnds_noevents(events, row_count) == events = <<>>

\* lines 254-255: if row_count == 0: break
LoopEnds(events, row_count) == row_count = 0

\* A mutant: an event the aggregate already holds is not added again.
RECURSIVE extend_dedup(_, _)
extend_dedup(all, events) ==
    IF events = <<>> THEN all
    ELSE extend_dedup(IF \E k \in 1..Len(all) : all[k] = Head(events)
                      THEN all ELSE Append(all, Head(events)),
                      Tail(events))

\* all_events.extend(events)
extend(all, events) == all \o events

-----------------------------------------------------------------------------
(* What the sources serve while main runs: a fetch fails, or a page comes  *)
(* back with no row, with one row that yields no event, or with one row    *)
(* that is kept under every label. A paged source serves fewer than        *)
(* MaxPages pages with rows.                                               *)

MaxPages == 3

ShortRow == [name_elem |-> <<[text |-> <<"A">>, href |-> <<"e">>]>>,
             promo_link |-> <<>>, spans |-> <<>>, extra |-> Netflix,
             location |-> NA, raises |-> "none"]

FailedFetch == [ok |-> FALSE, rows |-> <<>>]
EmptyPage == [ok |-> TRUE, rows |-> <<>>]
DroppedPage == [ok |-> TRUE, rows |-> <<[ShortRow EXCEPT !.name_elem = <<>>]>>]
KeptPage == [ok |-> TRUE, rows |-> <<ShortRow>>]

MainDocs == {FailedFetch, EmptyPage, DroppedPage, KeptPage}

MainToday == [y |-> 2026, m |-> 11, d |-> 6]

PromoLabels == {urls[i].promo : i \in 1..Len(urls)}

\* scrape_tapology on every page a source may serve, computed once
MainResults ==
    [l \in PromoLabels |-> [d \in MainDocs |-> scrape_tapology(d, l, MainToday)]]

Served(p) ==
    IF p < MaxPages THEN MainDocs
    ELSE {d \in MainDocs : ~d.ok \/ d.rows = <<>>}

InitMain ==
    /\ pc = "main"
    /\ today = MainToday
    /\ src = NextSource(0)
    /\ page = 1
    /\ all_events = <<>>
    /\ returned = <<>>
    /\ written = None
    /\ IdleSplit /\ IdleDate /\ IdleScrape

\* lines 252-253 and 258-259: events, row_count = r is added to the aggregate
Collect(r, ok) ==
    /\ all_events' = extend(all_events, r[1])
    /\ returned' = Append(returned, [src |-> src, page |-> page, ok |-> ok,
                                     events |-> r[1], row_count |-> r[2]])

\* lines 254-256: leave the loop or go to the next page
Advance(r) ==
    IF LoopEnds(r[1], r[2])
    THEN src' = NextSource(src) /\ page' = 1
    ELSE src' = src /\ page' = page + 1

Fetched(r, ok) == Collect(r, ok) /\ Advance(r)

\* lines 248-256: one turn of the while loop of a paged source
FetchPage ==
    /\ pc = "main"
    /\ src \in Paged
    /\ \E d \in Served(page) : Fetched(MainResults[urls[src].promo][d], d.ok)
    /\ UNCHANGED <<pc, today, written, splitVars, dateVars, scrapeVars>>

\* lines 257-259: a source that is fetched once
FetchOnce ==
    /\ pc = "main"
    /\ src \in Scraped_sources \ Paged
    /\ \E d \in MainDocs : Collect(MainResults[urls[src].promo][d], d.ok)
    /\ src' = NextSource(src)
    /\ UNCHANGED <<pc, today, page, written, splitVars, dateVars, scrapeVars>>

\* lines 261-262: json.dump(all_events, f)
WriteOutput ==
    /\ pc = "main"
    /\ src = Len(urls) + 1
    /\ written' = all_events
    /\ pc' = "main_done"
    /\ UNCHANGED <<today, src, page, all_events, returned,
                   splitVars, dateVars, scrapeVars>>

Next == FetchPage \/ FetchOnce \/ WriteOutput

Spec == InitMain /\ [][Next]_vars

-----------------------------------------------------------------------------
(* Claims about split_date_time.                                           *)

Stripped(s) == s = <<>> \/ (s[1] \notin Whitespace /\ s[Len(s)] \notin Whitespace)

\* the text after the first " at " of s (s contains it)
AfterAt(s) ==
    LET i == CHOOSE k \in 1..Len(s) :
                /\ SubSeq(s, k, k + 3) = AtSep
                /\ \A j \in 1..(k - 1) : SubSeq(s, j, j + 3) # AtSep
    IN  SubSeq(s, i + 4, Len(s))

HasAt(s) == \E k \in 1..(Len(s) - 3) : SubSeq(s, k, k + 3) = AtSep

IsSubstring(d, s) ==
    \E i \in 1..(Len(s) + 1) : \E j \in (i - 1)..Len(s) : SubSeq(s, i, j) = d

Chars(s) == {s[i] : i \in 1..Len(s)}

\* C6 as stated: for every string containing " at ", the date part has no
\* leading or trailing whitespace and the time part is the text after " at "
\* verbatim.
C6_TimeVerbatim ==
    (pc # "split" /\ HasAt(dt_str)) =>
        /\ Stripped(split1[1])
        /\ split1[2] = AfterAt(dt_str)

\* C6 amended: for every string containing " at ", the date part has no
\* leading or trailing whitespace and the time part is the text after the
\* first " at " with its leading and trailing whitespace removed.
C6_TimeStripped ==
    (pc # "split" /\ HasAt(dt_str)) =>
        /\ Stripped(split1[1])
        /\ Stripped(split1[2])
        /\ \E a \in 0..Len(AfterAt(dt_str)) : \E b \in 0..Len(AfterAt(dt_str)) :
              /\ a + b <= Len(AfterAt(dt_str))
              /\ split1[2] = SubSeq(AfterAt(dt_str), a + 1, Len(AfterAt(dt_str)) - b)
              /\ \A k \in 1..a : AfterAt(dt_str)[k] \in Whitespace
              /\ \A k \in (Len(AfterAt(dt_str)) - b + 1)..Len(AfterAt(dt_str)) :
                    AfterAt(dt_str)[k] \in Whitespace

\* C6 witness: a string with " at " whose remainder carries whitespace that
\* the returned time part has lost.
C6_Witness ==
    /\ pc = "resplit"
    /\ HasAt(dt_str)
    /\ split1[1] # <<>>
    /\ split1[2] # <<>>
    /\ split1[2] # AfterAt(dt_str)

\* C7 as stated: split_date_time applied to its own date output returns that
\* date part unchanged, for every input, and the date part has no character
\* that was not in the input.
C7_Idempotent ==
    pc = "split_done" =>
        /\ split2[1] = split1[1]
        /\ Chars(split1[1]) \subseteq Chars(dt_str)

\* C7 amended: when the returned date part is non-empty, has no leading or
\* trailing whitespace and contains no clock-time pattern, split_date_time
\* returns it unchanged; and for a non-empty input the date part is a
\* contiguous piece of the input.
C7_IdempotentOnPlainDates ==
    pc = "split_done" =>
        /\ (split1[1] # <<>> /\ Stripped(split1[1])
              /\ (\A i \in 1..Len(split1[1]) : TimeMatchEnd(split1[1], i) = 0))
                => split2[1] = split1[1]
        /\ dt_str # <<>> => IsSubstring(split1[1], dt_str)

\* C7 witness: a date part that still holds an " at "-free remainder of a
\* longer input and survives the second split unchanged.
C7_Witness ==
    /\ pc = "split_done"
    /\ HasAt(dt_str)
    /\ split1[1] # <<>>
    /\ split1[1] # dt_str
    /\ split2[1] = split1[1]

-----------------------------------------------------------------------------
(* Claims about parse_event_date.                                          *)

\* C5 as stated: for every raw date string that parses, with or without a
\* year and for any reference date, normalizing the returned date text a
\* second time yields the same date text.
C5_Idempotent ==
    (pc = "parse_done" /\ parse1[1] # NoDate) => parse2[2] = parse1[2]

\* C5 amended: for every raw date string that parses to a date in the
\* reference date's year (every string without a 4-digit year does),
\* normalizing the returned date text a second time yields the same text.
C5_IdempotentInCurrentYear ==
    (pc = "parse_done" /\ parse1[1] # NoDate /\ parse1[1].y = today.y)
        => parse2[2] = parse1[2]

\* C5 witness: a string with an explicit year, the reference date's, whose
\* canonical text is parsed again to the same date and text.
C5_Witness ==
    /\ pc = "parse_done"
    /\ HasFourDigits(date_str)
    /\ parse1[1] # NoDate
    /\ parse1[1].y = today.y
    /\ parse2[1] = parse1[1]
    /\ parse2[2] = parse1[2]
    /\ parse1[2] # date_str

-----------------------------------------------------------------------------
(* Claims about scrape_tapology.                                           *)

Scraped == pc = "scrape_done" /\ doc.ok
OneRow == Len(doc.rows) = 1
TheRow == doc.rows[1]
Events == result[1]

LowerHas(text, marker) == \E i \in 1..Len(text) : StartsWithAt(lower(text), i, marker)

\* the candidate's name, or its promotion link's text, image alt or href,
\* holds "zuffa" in any case
MentionsZuffa(row) ==
    \/ LowerHas(row.name_elem[1].text, Zuffa)
    \/ /\ row.promo_link # <<>>
       /\ \/ LowerHas(row.promo_link[1].text, Zuffa)
          \/ LowerHas(row.promo_link[1].href, Zuffa)
          \/ row.promo_link[1].img # <<>> /\ LowerHas(row.promo_link[1].img[1], Zuffa)

\* the date the candidate's date span parses to, NoDate if it does not
RowDate(row) ==
    parse_event_date(split_date_time(DateTimeRaw(row.spans))[1], today)[1]

\* strictly before the reference date and not in its calendar month and year
OutOfWindow(dt) ==
    /\ dt # NoDate
    /\ DateBefore(dt, today)
    /\ ~(dt.m = today.m /\ dt.y = today.y)

GenericBoxing(row) ==
    \/ promotion_name = "Boxing"
    \/ LowerHas(row.name_elem[1].text, BoxingWord)
         /\ ~LowerHas(row.name_elem[1].text, Zuffa)

\* C3: under the label "Boxing", a candidate whose name, promotion link
\* text, image alt or href holds "zuffa" (in any case) is never emitted,
\* whatever its row text and date.
C3_ZuffaNeverEmitted ==
    (Scraped /\ promotion_name = "Boxing") =>
        \A i \in 1..Len(doc.rows) :
            (doc.rows[i].name_elem # <<>> /\ MentionsZuffa(doc.rows[i])) =>
                \A j \in 1..Len(Events) :
                    Events[j].event_name # doc.rows[i].name_elem[1].text

\* C3 witness: a "Boxing" page whose one candidate is marked by its
\* promotion link only, is a title fight with a future date, and is dropped.
C3_Witness ==
    /\ Scraped /\ OneRow /\ promotion_name = "Boxing"
    /\ TheRow.name_elem # <<>>
    /\ ~LowerHas(TheRow.name_elem[1].text, Zuffa)
    /\ MentionsZuffa(TheRow)
    /\ Contains(RowText(TheRow), TitleFight)
    /\ RowDate(TheRow) # NoDate /\ ~OutOfWindow(RowDate(TheRow))
    /\ result = <<<<>>, 1>>

\* C4: a generic boxing candidate (label "Boxing", or "boxing" but not
\* "zuffa" in the name) that passes the exclusion and the temporal window
\* is dropped when its row text holds neither "Title Fight" nor "Netflix",
\* and is emitted when its row text holds "Netflix".
C4_GenericBoxingNeedsMarker ==
    (Scraped /\ OneRow /\ TheRow.name_elem # <<>> /\ TheRow.raises = "none"
        /\ GenericBoxing(TheRow)
        /\ ~(promotion_name = "Boxing" /\ MentionsZuffa(TheRow))
        /\ ~OutOfWindow(RowDate(TheRow))) =>
            /\ (~Contains(RowText(TheRow), TitleFight)
                  /\ ~Contains(RowText(TheRow), Netflix)) => Events = <<>>
            /\ Contains(RowText(TheRow), Netflix) =>
                  /\ Len(Events) = 1
                  /\ Events[1].event_name = TheRow.name_elem[1].text

\* C4 witness: a candidate that is generic boxing by its name alone, with
\* "Netflix" and no "Title Fight" in its row text, is emitted.
C4_Witness ==
    /\ Scraped /\ OneRow /\ promotion_name = "UFC"
    /\ TheRow.name_elem # <<>>
    /\ GenericBoxing(TheRow)
    /\ Contains(RowText(TheRow), Netflix)
    /\ ~Contains(RowText(TheRow), TitleFight)
    /\ Len(Events) = 1

C10_RowErrorSkipsOneRow ==
    Scraped =>
        LET done == [i \in 1..Len(doc.rows) |->
                        ProcessRow(doc.rows[i], promotion_name, today)]
            kept == {i \in 1..Len(doc.rows) : done[i].outcome = "kept"}
        IN  /\ result[2] = Len(doc.rows)
            /\ Len(Events) = Cardinality(kept)
            /\ \A i \in kept :
                  Events[Cardinality({j \in kept : j <= i})] = done[i].event

\* C10 witness: a page of three rows whose second row raises and whose
\* first and third rows are emitted.
C10_Witness ==
    /\ Scraped /\ Len(doc.rows) = 3
    /\ doc.rows[2].raises # "none"
    /\ ProcessRow(doc.rows[2], promotion_name, today).outcome = "raised"
    /\ ProcessRow(doc.rows[1], promotion_name, today).outcome = "kept"
    /\ ProcessRow(doc.rows[3], promotion_name, today).outcome = "kept"
    /\ Len(Events) = 2 /\ result[2] = 3
    /\ Events[1] # Events[2]

-----------------------------------------------------------------------------
(* Claims about main (Spec). returned is the history of the calls of       *)
(* scrape_tapology: the source, the page, whether the fetch succeeded, and *)
(* what the call returned.                                                 *)

\* the calls made for source i
Calls(i) == {c \in 1..Len(returned) : returned[c].src = i}

\* the events of the first n calls, in call order
RECURSIVE EventsUpTo(_)
EventsUpTo(n) ==
    IF n = 0 THEN <<>> ELSE EventsUpTo(n - 1) \o returned[n].events

FirstCall(i) == CHOOSE c \in Calls(i) : \A e \in Calls(i) : c <= e
LastCall(i) == CHOOSE c \in Calls(i) : \A e \in Calls(i) : e <= c

\* the events of calls a..b, in call order
RECURSIVE EventsBetween(_, _)
EventsBetween(a, b) ==
    IF b < a THEN <<>> ELSE EventsBetween(a, b - 1) \o returned[b].events

\* the part of the aggregate that was added while source i was fetched
Contribution(i) ==
    IF Calls(i) = {} THEN <<>>
    ELSE SubSeq(all_events, Len(EventsUpTo(FirstCall(i) - 1)) + 1,
                Len(EventsUpTo(LastCall(i))))

\* the loop has moved past source i
Finished(i) == src > i

MainDone == pc = "main_done"

\* C1: a paged source is fetched page 1, 2, ... up to and including the
\* first page on which no row is found, whatever number of events the pages
\* before it yield, and it contributes the events of these pages in page
\* order.
C1_PaginationStopsAtFirstEmptyPage ==
    \A i \in Paged :
        Finished(i) =>
            LET k == Cardinality(Calls(i)) IN
            /\ k >= 1
            /\ \A n \in 1..k :
                  LET call == returned[FirstCall(i) + n - 1] IN
                  /\ call.src = i /\ call.page = n
                  /\ (call.row_count = 0) <=> (n = k)
            /\ Contribution(i) = EventsBetween(FirstCall(i), LastCall(i))

\* C1 witness: the first paged source is fetched three times, its first
\* page has a row and yields no event, its second page yields an event and
\* its third page has no row.
C1_Witness ==
    /\ MainDone
    /\ \E i \in Paged :
        /\ Cardinality(Calls(i)) = 3
        /\ returned[FirstCall(i)].row_count = 1
        /\ returned[FirstCall(i)].events = <<>>
        /\ returned[FirstCall(i) + 1].row_count = 1
        /\ Len(returned[FirstCall(i) + 1].events) = 1
        /\ returned[FirstCall(i) + 2].ok
        /\ returned[FirstCall(i) + 2].row_count = 0
        /\ Len(Contribution(i)) = 1

\* the sources with a failed fetch
Failed == {i \in Scraped_sources : \E c \in Calls(i) : ~returned[c].ok}

\* C2 as stated: when the run ends, every source was fetched, and a source
\* with a failed fetch has contributed no event.
C2_FailedSourceContributesNothing ==
    MainDone =>
        /\ \A i \in Scraped_sources : Calls(i) # {}
        /\ \A i \in Failed : Contribution(i) = <<>>

\* C2: when the run ends, every source was fetched, and for a source with a
\* failed fetch the failed fetch is its last one and yields no event: the
\* source contributes the events of the pages fetched before the failure,
\* which is nothing for a source that is fetched once.
C2_FailedFetchContributesNothing ==
    MainDone =>
        /\ \A i \in Scraped_sources : Calls(i) # {}
        /\ \A i \in Failed :
              /\ ~returned[LastCall(i)].ok
              /\ \A c \in Calls(i) : ~returned[c].ok => c = LastCall(i)
              /\ returned[LastCall(i)].events = <<>>
              /\ returned[LastCall(i)].row_count = 0
              /\ Contribution(i) = EventsBetween(FirstCall(i), LastCall(i) - 1)
              /\ i \notin Paged => Contribution(i) = <<>>

\* C2 witness: the second page of a paged source fails after its first page
\* has yielded an event, the event is in the output, and the sources after
\* it are fetched.
C2_Witness ==
    /\ MainDone
    /\ \E i \in Paged \cap Failed :
        /\ Cardinality(Calls(i)) = 2
        /\ Len(returned[FirstCall(i)].events) = 1
        /\ ~returned[LastCall(i)].ok
        /\ Contribution(i) = returned[FirstCall(i)].events
        /\ \E j \in Scraped_sources : j > i /\ Calls(j) # {}
    /\ \E i \in Failed \ Paged : Contribution(i) = <<>>

\* C8: the output is the concatenation of what the calls returned, the
\* calls being made in source order and, within a source, in page order;
\* nothing is removed, reordered or merged.
C8_OutputIsConcatenation ==
    /\ all_events = EventsUpTo(Len(returned))
    /\ \A c \in 1..Len(returned) : \A e \in 1..Len(returned) :
          c < e =>
              \/ returned[c].src < returned[e].src
              \/ returned[c].src = returned[e].src
                 /\ returned[c].page < returned[e].page
    /\ MainDone => written = EventsUpTo(Len(returned))

\* C8 witness: the two Boxing sources return the same event and the output
\* holds it twice.
C8_Witness ==
    /\ MainDone
    /\ \E i \in Scraped_sources : \E j \in Scraped_sources :
        /\ i < j
        /\ Len(Contribution(i)) = 1
        /\ Contribution(j) = Contribution(i)
        /\ \E a \in 1..Len(written) : \E b \in 1..Len(written) :
              a < b /\ written[a] = written[b]
                    /\ written[a] = Contribution(i)[1]

====
